---- MODULE Spec2Model ----
(***************************************************************************)
(* Object storage lifecycle of the newspaper emailer: enumeration of the   *)
(* bucket (storage.list_storage_files, storage.list_archive_files), the    *)
(* recent-links selection (main.get_past_papers_from_storage) and the two  *)
(* purges (main.cleanup_old_files, storage.delete_old_files).              *)
(* Further sections model the client initialisation under concurrent       *)
(* callers, URL issuance, upload_to_s3, email_sender.send_email and the     *)
(* pipeline main.main, each under a specification of its own.              *)
(*                                                                         *)
(* Dates are day ordinals (1 = 2024-01-01), as datetime.date is for        *)
(* timedelta arithmetic.  A date string is the sequence of its '-'         *)
(* separated numeric fields; strftime zero-pads every field to a fixed     *)
(* width, so comparing two formatted strings character by character is     *)
(* comparing their fields left to right.                                   *)
(***************************************************************************)
EXTENDS Integers, Sequences, FiniteSets, TLC

\* ------------------------------------------------------------------ bounds
MaxStore == 3
MaxDays == 2
MaxPages == 2
MaxCallers == 2
MaxRecipients == 2

\* --------------------------------------------------------------- calendar
EpochYear == 2024

IsLeap(y) == (y % 4 = 0 /\ y % 100 # 0) \/ y % 400 = 0

DaysInMonth(y, m) ==
    IF m = 2 THEN (IF IsLeap(y) THEN 29 ELSE 28)
    ELSE IF m \in {4, 6, 9, 11} THEN 30 ELSE 31

DaysInYear(y) == IF IsLeap(y) THEN 366 ELSE 365

RECURSIVE DaysBeforeYear(_)
DaysBeforeYear(y) ==
    IF y <= EpochYear THEN 0 ELSE DaysBeforeYear(y - 1) + DaysInYear(y - 1)

RECURSIVE DaysBeforeMonth(_, _)
DaysBeforeMonth(y, m) ==
    IF m = 1 THEN 0 ELSE DaysBeforeMonth(y, m - 1) + DaysInMonth(y, m - 1)

\* date(y, m, d).toordinal(), counted from 1 January of the epoch year
ToOrdinal(y, m, d) == DaysBeforeYear(y) + DaysBeforeMonth(y, m) + d

RECURSIVE MonthOf(_, _, _)
MonthOf(y, m, o) ==
    IF o <= DaysInMonth(y, m) THEN <<y, m, o>>
    ELSE MonthOf(y, m + 1, o - DaysInMonth(y, m))

RECURSIVE YearOf(_, _)
YearOf(y, o) ==
    IF o <= DaysInYear(y) THEN MonthOf(y, 1, o) ELSE YearOf(y + 1, o - DaysInYear(y))

\* date.fromordinal(o) as <<year, month, day>>
FromOrdinal(o) == YearOf(EpochYear, o)

\* date - timedelta(days = n)
MinusDays(date, n) == date - n

\* ------------------------------------------------------- date formats
ISO == "%Y-%m-%d"
DMY == "%d-%m-%Y"
DateFormats == {ISO, DMY}

\* a date token with no numeric field at all ("latest", "dummy", ...)
NoDate == << >>

\* date.strftime(fmt): the fields in the order the format names them
Strftime(date, fmt) ==
    LET ymd == FromOrdinal(date) IN
    IF fmt = ISO THEN <<ymd[1], ymd[2], ymd[3]>>
    ELSE <<ymd[3], ymd[2], ymd[1]>>

\* %Y matches exactly four digits, %m and %d one or two; the fields must name a
\* day of the calendar (years before the epoch year are outside the model)
ValidYmd(y, m, d) ==
    /\ y >= EpochYear
    /\ y <= 9999
    /\ m \in 1..12
    /\ d >= 1
    /\ d <= DaysInMonth(y, m)

\* datetime.strptime(date_str, fmt) succeeds (no ValueError)
Parses(date_str, fmt) ==
    /\ Len(date_str) = 3
    /\ IF fmt = ISO
       THEN ValidYmd(date_str[1], date_str[2], date_str[3])
       ELSE ValidYmd(date_str[3], date_str[2], date_str[1])

\* datetime.strptime(date_str, fmt).date(), defined where Parses holds
Strptime(date_str, fmt) ==
    IF fmt = ISO
    THEN ToOrdinal(date_str[1], date_str[2], date_str[3])
    ELSE ToOrdinal(date_str[3], date_str[2], date_str[1])

\* str < str on two formatted date strings
RECURSIVE StrLessFrom(_, _, _)
StrLessFrom(a, b, i) ==
    IF i > Len(a) \/ i > Len(b) THEN Len(a) < Len(b)
    ELSE IF a[i] # b[i] THEN a[i] < b[i]
    ELSE StrLessFrom(a, b, i + 1)

StrLess(a, b) == StrLessFrom(a, b, 1)

\* ------------------------------------------------------------- keys
\* the key  <date_str>_<name>.<ext>
Filename(date_str, name, ext) == [date_str |-> date_str, name |-> name, ext |-> ext]

\* filename.split('_')[0]
DateToken(filename) == filename.date_str

\* the names of the store's keys that contain "newspaper"
NewspaperNames == {"newspaper", "newspaper_2"}

\* "newspaper" in filename and (filename.endswith(".pdf") or filename.endswith(".html"))
IsDocument(filename) ==
    /\ filename.name \in NewspaperNames
    /\ filename.ext \in {"pdf", "html"}

StoredObject(filename, lm) == [Key |-> filename, LastModified |-> lm]

\* obj['Key'] for obj in response['Contents']
KeysOf(objs) ==
    IF objs = << >> THEN << >> ELSE [i \in 1..Len(objs) |-> objs[i].Key]

Range(s) == {s[i] : i \in DOMAIN s}

\* list.sort(key = ..., reverse = True): descending and stable; less[i][j]
\* says that the sort key of seq[i] is smaller than the sort key of seq[j]
StableSortDesc(seq, less) ==
    LET n == Len(seq)
        pos(i) == 1 + Cardinality({j \in 1..n :
                        \/ less[i][j]
                        \/ (~less[j][i] /\ j < i)})
    IN [k \in 1..n |-> seq[CHOOSE i \in 1..n : pos(i) = k]]

\* ------------------------------------------------- the store's contents
Jan30 == ToOrdinal(EpochYear, 1, 30)
Jan31 == ToOrdinal(EpochYear, 1, 31)
Feb01 == ToOrdinal(EpochYear, 2, 1)
Feb02 == ToOrdinal(EpochYear, 2, 2)

\* the date the operations run on: target_date, and datetime.now()
Today == Feb01

OtherFormat(fmt) == IF fmt = ISO THEN DMY ELSE ISO

\* the objects a bucket may hold under date format fmt: documents of today,
\* of the two days before and of tomorrow, a second document of today, a
\* thumbnail, and a key whose date is written in the other format
Universe(fmt) ==
    {StoredObject(Filename(Strftime(d, fmt), "newspaper", "pdf"), d) : d \in Jan30..Feb02}
    \cup {StoredObject(Filename(Strftime(Feb01, fmt), "newspaper", "html"), Feb01),
          StoredObject(Filename(Strftime(Jan31, fmt), "thumbnail", "jpg"), Jan30 - 1),
          StoredObject(Filename(Strftime(Jan30, OtherFormat(fmt)), "newspaper", "pdf"), Jan30 - 1)}

\* keys are unique in a bucket
NoDuplicates(s) == \A i, j \in DOMAIN s : i # j => s[i].Key # s[j].Key

SeqsUpTo(S, n) == UNION {[1..k -> S] : k \in 0..n}

Buckets(fmt) == {s \in SeqsUpTo(Universe(fmt), MaxStore) : NoDuplicates(s)}

\* ---------------------------------------------------------------- state
VARIABLES
    DATE_FORMAT,      \* config ('general', 'date_format')
    RETENTION_DAYS,   \* config ('general', 'retention_days')
    S3_BUCKET_NAME,   \* config ('storage', 'bucket_name'), "" when unset
    s3_client,        \* storage.s3_client: "None" or "client"
    bucket,           \* the objects in the store, in the store's listing order
    op,               \* the operation that ran last
    args,             \* its arguments
    pages,            \* the pages the store answered a listing operation with
    failed_page,      \* the page whose request raised ClientError (0: none)
    enumerations,     \* how many enumerations of the store the operation started
    all_files,        \* what the enumeration inside the operation produced
    selected,         \* the keys the operation chose to delete, in order
    calls,            \* the requests the operation made on the store client
    errors,           \* the keys the operation logged a failure for
    raised,           \* the exception that ended the operation's work ("none": none)
    ret,              \* what the operation returned (or logged as its count)
    steps,            \* the calls main made on the other modules, in order
    pc,               \* where each concurrent caller of get_s3_client stands
    made,             \* the client a caller constructed and has not stored yet
    got,              \* what get_s3_client returned to each caller
    sessions,         \* how many clients were constructed so far
    EMAIL_FROM,       \* config ('email', 'sender'), "" when unset
    EMAIL_TO,         \* config ('email', 'recipients')
    SENDGRID_API_KEY, \* config ('email', 'sendgrid_api_key'), "" when unset
    SMTP_HOST,        \* config ('email', 'smtp_host'), "" when unset
    SMTP_USER,        \* config ('email', 'smtp_user'), "" when unset
    SMTP_PASSWORD,    \* config ('email', 'smtp_password'), "" when unset
    template          \* what is at TEMPLATE_DIR/TEMPLATE_NAME on the file system

vars == <<DATE_FORMAT, RETENTION_DAYS, S3_BUCKET_NAME, s3_client, bucket, op, args,
          pages, failed_page, enumerations, all_files, selected, calls, errors,
          raised, ret, steps, pc, made, got, sessions, EMAIL_FROM, EMAIL_TO,
          SENDGRID_API_KEY, SMTP_HOST, SMTP_USER, SMTP_PASSWORD, template>>

\* the settings of email_sender.py and the template it renders
mail == <<EMAIL_FROM, EMAIL_TO, SENDGRID_API_KEY, SMTP_HOST, SMTP_USER, SMTP_PASSWORD,
          template>>

\* what the modules read from config.config when they are imported; no
\* operation assigns any of it
config == <<DATE_FORMAT, RETENTION_DAYS, S3_BUCKET_NAME, mail>>

\* EMAIL_TO as configured: its type and, for a list, its entries, for a string,
\* the pieces between its commas
Recipients(type, items) == [type |-> type, items |-> items]

\* an email set-up that delivers through SMTP
MailConfigured ==
    /\ EMAIL_FROM = "news@example.com"
    /\ EMAIL_TO = Recipients("list", <<"reader@example.com">>)
    /\ SENDGRID_API_KEY = ""
    /\ SMTP_HOST = "smtp.example.com"
    /\ SMTP_USER = "news"
    /\ SMTP_PASSWORD = "secret"
    /\ template = "ok"

\* the state of the concurrent callers of get_s3_client
callers == <<pc, made, got, sessions>>

\* the threads that call get_s3_client
Callers == 1..MaxCallers

\* no caller is inside get_s3_client
NoCallers ==
    /\ pc = [c \in Callers |-> "idle"]
    /\ made = [c \in Callers |-> "None"]
    /\ got = [c \in Callers |-> "None"]
    /\ sessions = 0

Args(dry_run, prefix) == [dry_run |-> dry_run, prefix |-> prefix]
NoArgs == Args(FALSE, << >>)

\* a returned value: None, a list or a number; a URL or a boolean is carried
\* as the one element of list
None == [none |-> TRUE, list |-> << >>, count |-> 0]
List(l) == [none |-> FALSE, list |-> l, count |-> Len(l)]
Count(n) == [none |-> FALSE, list |-> << >>, count |-> n]
Url(u) == List(<<u>>)
Bool(b) == List(<<b>>)

Call(api, page, keys) == [api |-> api, page |-> page, keys |-> keys]

Init ==
    /\ DATE_FORMAT \in DateFormats
    /\ RETENTION_DAYS \in 0..MaxDays
    /\ S3_BUCKET_NAME \in {"", "newspapers"}
    /\ s3_client = "None"
    /\ bucket \in Buckets(DATE_FORMAT)
    /\ op = "none"
    /\ args = NoArgs
    /\ pages = << >>
    /\ failed_page = 0
    /\ enumerations = 0
    /\ all_files = None
    /\ selected = << >>
    /\ calls = << >>
    /\ errors = {}
    /\ raised = "none"
    /\ ret = None
    /\ steps = << >>
    /\ NoCallers
    /\ MailConfigured

\* the module is sequential: an operation starts when no outcome is pending
Idle == op = "none"

\* the caller has read the outcome of the operation and goes on to its next
\* call; the client handle and the store stay as the operation left them
Continue ==
    /\ ~Idle
    /\ op' = "none"
    /\ args' = NoArgs
    /\ pages' = << >>
    /\ failed_page' = 0
    /\ enumerations' = 0
    /\ all_files' = None
    /\ selected' = << >>
    /\ calls' = << >>
    /\ errors' = {}
    /\ raised' = "none"
    /\ ret' = None
    /\ steps' = << >>
    /\ UNCHANGED <<config, s3_client, bucket, callers>>

\* ---------------------------------------------------------- the client
\* init_s3_client / get_s3_client: a client is available if one was built
\* before, or the bucket name is set and building one succeeds now
ClientAvailable(built) ==
    \/ s3_client = "client"
    \/ (S3_BUCKET_NAME # "" /\ built)

get_s3_client(built) == IF ClientAvailable(built) THEN "client" ELSE "None"

\* whether building a client succeeds is the environment's choice, and only a
\* choice when one is attempted
Builds == IF s3_client = "None" /\ S3_BUCKET_NAME # "" THEN BOOLEAN ELSE {FALSE}

\* ------------------------------------------------------------ listing
\* where the store may end a page of a listing of objs: anywhere in a short
\* listing, at the ends and the middle of a long one
CutPoints(objs) ==
    IF Len(objs) <= MaxStore THEN 0..Len(objs) ELSE {0, Len(objs) \div 2, Len(objs)}

\* the ways the store may cut a listing of objs into n pages (a page may
\* be empty: a response without 'Contents')
Cuts(objs, n) ==
    {c \in [0..n -> CutPoints(objs)] :
        /\ c[0] = 0
        /\ c[n] = Len(objs)
        /\ \A i \in 1..n : c[i - 1] <= c[i]}

Paginations(objs) ==
    UNION {{[i \in 1..n |-> SubSeq(objs, c[i - 1] + 1, c[i])] : c \in Cuts(objs, n)}
           : n \in 1..MaxPages}

\* Prefix = prefix of a list request: the key starts with the prefix
HasPrefix(filename, prefix) ==
    /\ Len(prefix) <= Len(DateToken(filename))
    /\ SubSeq(DateToken(filename), 1, Len(prefix)) = prefix

UnderPrefix(objs, prefix) == SelectSeq(objs, LAMBDA o : HasPrefix(o.Key, prefix))

\* a response of list_objects_v2 for page i of pg
HasContents(pg, i) == pg[i] # << >>
IsTruncated(pg, i) == i < Len(pg)

\* list_storage_files after the client was obtained: the request for page
\* failAt raises ClientError (0: none does)
RECURSIVE ListMore(_, _, _, _, _)
ListMore(pg, failAt, i, files, reqs) ==
    IF ~IsTruncated(pg, i) THEN [ret |-> List(files), calls |-> reqs]
    ELSE LET reqs2 == Append(reqs, Call("list_objects_v2", i + 1, << >>)) IN
         IF failAt = i + 1 THEN [ret |-> None, calls |-> reqs2]
         ELSE IF ~HasContents(pg, i + 1) THEN [ret |-> None, calls |-> reqs2]
         ELSE ListMore(pg, failAt, i + 1, files \o KeysOf(pg[i + 1]), reqs2)

list_storage_files(client, pg, failAt) ==
    LET reqs == <<Call("list_objects_v2", 1, << >>)>> IN
    IF client = "None" THEN [ret |-> None, calls |-> << >>]
    ELSE IF failAt = 1 THEN [ret |-> None, calls |-> reqs]
    ELSE IF ~HasContents(pg, 1) THEN [ret |-> List(<< >>), calls |-> reqs]
    ELSE ListMore(pg, failAt, 1, KeysOf(pg[1]), reqs)

\* the dummy objects list_archive_files returns in a dry run
DummyArchive(prefix) ==
    <<StoredObject(Filename(prefix \o NoDate, "archive_1", "pdf"), 0),
      StoredObject(Filename(prefix \o NoDate, "archive_2", "pdf"), 0)>>

\* the paginator of list_archive_files and delete_old_files: every page is
\* requested in turn, a page without 'Contents' is skipped
RECURSIVE Paginate(_, _, _, _, _)
Paginate(pg, failAt, i, objs, reqs) ==
    IF i > Len(pg) THEN [failed |-> FALSE, objs |-> objs, calls |-> reqs]
    ELSE LET reqs2 == Append(reqs, Call("list_objects_v2", i, << >>)) IN
         IF failAt = i THEN [failed |-> TRUE, objs |-> objs, calls |-> reqs2]
         ELSE Paginate(pg, failAt, i + 1,
                       IF HasContents(pg, i) THEN objs \o pg[i] ELSE objs, reqs2)

list_archive_files(client, prefix, dry_run, pg, failAt) ==
    IF client = "None" THEN [ret |-> List(<< >>), calls |-> << >>]
    ELSE IF dry_run THEN [ret |-> List(DummyArchive(prefix)), calls |-> << >>]
    ELSE LET p == Paginate(pg, failAt, 1, << >>, << >>) IN
         IF p.failed THEN [ret |-> List(<< >>), calls |-> p.calls]
         ELSE [ret |-> List(p.objs), calls |-> p.calls]

\* ----------------------------------------------------- URL issuance
\* the URL generate_presigned_url answers for a key
PresignedUrl(s3_key) == [Key |-> s3_key, simulated |-> FALSE]

\* http://example.com/presigned-url/{s3_key}?simulated=true
SimulatedUrl(s3_key) == [Key |-> s3_key, simulated |-> TRUE]

\* generate_presigned_url(s3_key, dry_run) once get_s3_client() answered
\* client; fails: client.generate_presigned_url raises
generate_presigned_url(client, s3_key, dry_run, fails) ==
    IF client = "None" THEN [ret |-> None, calls |-> << >>]
    ELSE IF dry_run THEN [ret |-> Url(SimulatedUrl(s3_key)), calls |-> << >>]
    ELSE IF fails
         THEN [ret |-> None, calls |-> <<Call("generate_presigned_url", 0, <<s3_key>>)>>]
         ELSE [ret |-> Url(PresignedUrl(s3_key)),
               calls |-> <<Call("generate_presigned_url", 0, <<s3_key>>)>>]

\* get_file_url(file_key): generate_presigned_url with dry_run=False
get_file_url(client, file_key, fails) ==
    generate_presigned_url(client, file_key, FALSE, fails)

\* ------------------------------------------------- retention rules
\* InWindow without the test against target_date
InWindow_NoUpperBound(file_date, target_date, days) ==
    file_date >= MinusDays(target_date, days - 1)

\* InWindow with the cutoff of the purge, target_date - days
InWindow_PurgeCutoff(file_date, target_date, days) ==
    /\ file_date >= MinusDays(target_date, days)
    /\ file_date <= target_date

\* main.py line 71: file_date >= cutoff_date and file_date <= target_date,
\* with cutoff_date = target_date - timedelta(days = days - 1)
InWindow(file_date, target_date, days) ==
    /\ file_date >= MinusDays(target_date, days - 1)
    /\ file_date <= target_date

\* IsExpired with <= for <
IsExpired_Inclusive(file_date, target_date, days_to_keep) ==
    file_date <= MinusDays(target_date, days_to_keep)

\* main.py line 126: file_date < cutoff_date,
\* with cutoff_date = target_date - timedelta(days = days_to_keep)
IsExpired(file_date, target_date, days_to_keep) ==
    file_date < MinusDays(target_date, days_to_keep)

\* storage.py line 279: last_modified_aware < cutoff_date,
\* with cutoff_date = now - timedelta(days = retention_days)
IsOld(last_modified, now, retention_days) ==
    last_modified < MinusDays(now, retention_days)

\* the try block of a per-key loop body is entered: no ValueError
KeyParses(filename, fmt) == Parses(DateToken(filename), fmt)

FileDate(filename, fmt) == Strptime(DateToken(filename), fmt)

\* ------------------------------------- get_past_papers_from_storage
\* dated_files, before it is sorted (main.py lines 51-62)
RECURSIVE DatedFiles(_, _)
DatedFiles(files, fmt) ==
    IF files = << >> THEN << >>
    ELSE LET filename == Head(files) IN
         (IF KeyParses(filename, fmt) /\ IsDocument(filename)
          THEN <<[file_date |-> FileDate(filename, fmt), filename |-> filename]>>
          ELSE << >>) \o DatedFiles(Tail(files), fmt)

DateLess(a, b) == a.file_date < b.file_date

\* the entry (file_date.strftime(DATE_FORMAT), url) of past_papers_links
Link(file_date, url, fmt) == [date |-> Strftime(file_date, fmt), url |-> url]

LinkLess(a, b) == StrLess(a.date, b.date)

\* the stop test of the loop (main.py line 85)
EnoughLinks(links, days) == Len(links) >= days

\* the loop over dated_files (main.py lines 70-86); URL issuance fails for
\* the keys in urlFail
RECURSIVE CollectLinks(_, _, _, _, _, _, _, _)
CollectLinks(dated, i, links, reqs, target_date, days, urlFail, fmt) ==
    IF i > Len(dated) THEN [links |-> links, calls |-> reqs]
    ELSE LET e == dated[i]
             inw == InWindow(e.file_date, target_date, days)
             links2 == IF inw /\ e.filename \notin urlFail
                       THEN Append(links, Link(e.file_date, PresignedUrl(e.filename), fmt))
                       ELSE links
             reqs2 == IF inw
                      THEN Append(reqs, Call("generate_presigned_url", 0, <<e.filename>>))
                      ELSE reqs
         IN IF EnoughLinks(links2, days) THEN [links |-> links2, calls |-> reqs2]
            ELSE CollectLinks(dated, i + 1, links2, reqs2, target_date, days, urlFail, fmt)

\* the keys of calls that are in urlFail: the warnings of lines 77-83
FailedUrls(reqs, urlFail) == {reqs[i].keys[1] : i \in DOMAIN reqs} \cap urlFail

\* the body after a non-empty listing (main.py lines 48-91)
PastPapers(files, target_date, days, urlFail, fmt) ==
    LET unsorted == DatedFiles(files, fmt)
        dated == StableSortDesc(unsorted,
                     [i \in DOMAIN unsorted |->
                         [j \in DOMAIN unsorted |-> DateLess(unsorted[i], unsorted[j])]])
        c == CollectLinks(dated, 1, << >>, << >>, target_date, days, urlFail, fmt)
    IN [links |-> StableSortDesc(c.links,
                      [i \in DOMAIN c.links |->
                          [j \in DOMAIN c.links |-> LinkLess(c.links[i], c.links[j])]]),
        calls |-> c.calls,
        failed |-> FailedUrls(c.calls, urlFail)]

\* what list_storage_files may return for the bucket as it is
ListOutcomes(client) ==
    {list_storage_files(client, pg, failAt).ret :
        pg \in Paginations(bucket), failAt \in 0..MaxPages}

\* the keys of files a URL is asked for
UrlKeys(files, fmt, target_date, days) ==
    {f \in Range(files) :
        /\ KeyParses(f, fmt)
        /\ IsDocument(f)
        /\ InWindow(FileDate(f, fmt), target_date, days)}

get_past_papers_from_storage ==
    /\ Idle
    /\ \E built \in Builds :
       \E ls \in ListOutcomes(get_s3_client(built)) :
       \E urlFail \in SUBSET UrlKeys(ls.list, DATE_FORMAT, Today, RETENTION_DAYS) :
           LET pp == PastPapers(ls.list, Today, RETENTION_DAYS, urlFail, DATE_FORMAT)
               empty == ls.none \/ ls.list = << >>
           IN /\ s3_client' = get_s3_client(built)
              /\ op' = "get_past_papers_from_storage"
              /\ args' = NoArgs
              /\ pages' = << >>
              /\ failed_page' = 0
              /\ enumerations' = 1
              /\ all_files' = ls
              /\ selected' = << >>
              /\ calls' = IF empty THEN << >> ELSE pp.calls
              /\ errors' = IF empty THEN {} ELSE pp.failed
              /\ raised' = "none"
              /\ ret' = IF empty THEN List(<< >>) ELSE List(pp.links)
              /\ UNCHANGED <<config, bucket, steps, callers>>

\* ------------------------------------------------ delete_from_storage
\* delete_from_storage without its dry_run branch
delete_from_storage_NoDryRun(client, file_key, dry_run, delFail) ==
    IF client = "None" THEN [ok |-> FALSE, calls |-> << >>, removed |-> {}]
    ELSE IF file_key \in delFail
         THEN [ok |-> FALSE, calls |-> <<Call("delete_object", 0, <<file_key>>)>>,
               removed |-> {}]
         ELSE [ok |-> TRUE, calls |-> <<Call("delete_object", 0, <<file_key>>)>>,
               removed |-> {file_key}]

\* the outcome of delete_from_storage(file_key, dry_run) once the client is
\* there: delete_object raises for the keys in delFail
delete_from_storage(client, file_key, dry_run, delFail) ==
    IF client = "None" THEN [ok |-> FALSE, calls |-> << >>, removed |-> {}]
    ELSE IF dry_run THEN [ok |-> TRUE, calls |-> << >>, removed |-> {}]
    ELSE IF file_key \in delFail
         THEN [ok |-> FALSE, calls |-> <<Call("delete_object", 0, <<file_key>>)>>,
               removed |-> {}]
         ELSE [ok |-> TRUE, calls |-> <<Call("delete_object", 0, <<file_key>>)>>,
               removed |-> {file_key}]

\* -------------------------------------------------- cleanup_old_files
\* the test that sends a key to delete_from_storage (main.py lines 121-126)
ToDelete(filename, fmt, target_date, days_to_keep) ==
    /\ KeyParses(filename, fmt)
    /\ IsExpired(FileDate(filename, fmt), target_date, days_to_keep)

\* CleanupLoop with break for continue: a key that does not parse ends the loop
RECURSIVE CleanupLoop_Break(_, _, _, _, _, _, _, _)
CleanupLoop_Break(files, i, acc, client, target_date, days_to_keep, dry_run, delFail) ==
    IF i > Len(files) THEN acc
    ELSE IF ~KeyParses(files[i], DATE_FORMAT) THEN acc
    ELSE LET filename == files[i]
             d == delete_from_storage(client, filename, dry_run, delFail)
             acc2 == IF ToDelete(filename, DATE_FORMAT, target_date, days_to_keep)
                     THEN [acc EXCEPT !.selected = Append(acc.selected, filename),
                                       !.calls = acc.calls \o d.calls,
                                       !.removed = acc.removed \cup d.removed,
                                       !.errors = acc.errors
                                                  \cup (IF d.ok THEN {} ELSE {filename}),
                                       !.deleted_count = acc.deleted_count
                                                         + (IF d.ok THEN 1 ELSE 0)]
                     ELSE acc
         IN CleanupLoop_Break(files, i + 1, acc2, client, target_date, days_to_keep,
                              dry_run, delFail)

\* the loop over all_files (main.py lines 119-139)
RECURSIVE CleanupLoop(_, _, _, _, _, _, _, _)
CleanupLoop(files, i, acc, client, target_date, days_to_keep, dry_run, delFail) ==
    IF i > Len(files) THEN acc
    ELSE LET filename == files[i]
             d == delete_from_storage(client, filename, dry_run, delFail)
             acc2 == IF ToDelete(filename, DATE_FORMAT, target_date, days_to_keep)
                     THEN [acc EXCEPT !.selected = Append(acc.selected, filename),
                                       !.calls = acc.calls \o d.calls,
                                       !.removed = acc.removed \cup d.removed,
                                       !.errors = acc.errors
                                                  \cup (IF d.ok THEN {} ELSE {filename}),
                                       !.deleted_count = acc.deleted_count
                                                         + (IF d.ok THEN 1 ELSE 0)]
                     ELSE acc
         IN CleanupLoop(files, i + 1, acc2, client, target_date, days_to_keep,
                        dry_run, delFail)

NoDeletes ==
    [selected |-> << >>, calls |-> << >>, removed |-> {}, errors |-> {},
     deleted_count |-> 0, raised |-> "none"]

Remaining(objs, removed) == SelectSeq(objs, LAMBDA o : o.Key \notin removed)

\* the keys of files that cleanup_old_files sends to delete_from_storage
ExpiredKeys(files, fmt, target_date, days_to_keep) ==
    {f \in Range(files) : ToDelete(f, fmt, target_date, days_to_keep)}

\* one call of cleanup_old_files(target_date, dry_run = dry_run)
cleanup_old_files_run ==
    /\ \E dry_run \in BOOLEAN, built \in Builds :
       \E ls \in ListOutcomes(get_s3_client(built)) :
       \E delFail \in SUBSET (IF dry_run THEN {}
                              ELSE ExpiredKeys(ls.list, DATE_FORMAT, Today, RETENTION_DAYS)) :
           LET client == get_s3_client(built)
               empty == ls.none \/ ls.list = << >>
               r == IF empty THEN NoDeletes
                    ELSE CleanupLoop(ls.list, 1, NoDeletes, client, Today, RETENTION_DAYS,
                                     dry_run, delFail)
           IN /\ s3_client' = client
              /\ op' = "cleanup_old_files"
              /\ args' = Args(dry_run, << >>)
              /\ pages' = << >>
              /\ failed_page' = 0
              /\ enumerations' = 1
              /\ all_files' = ls
              /\ selected' = r.selected
              /\ calls' = r.calls
              /\ errors' = r.errors
              /\ raised' = "none"
              /\ ret' = IF empty THEN None ELSE Count(r.deleted_count)
              /\ bucket' = Remaining(bucket, r.removed)
              /\ UNCHANGED <<config, steps, callers>>

cleanup_old_files == Idle /\ cleanup_old_files_run

\* the caller runs cleanup_old_files again right after a run of it
cleanup_old_files_again == op = "cleanup_old_files" /\ cleanup_old_files_run

\* --------------------------------------------------- delete_old_files
\* the S3 limit for bulk operations (storage.py lines 299-300)
BATCH_SIZE == 1000

Prefixes == {<< >>, <<EpochYear>>}

Min(a, b) == IF a < b THEN a ELSE b

\* FilesToDelete deciding on a second enumeration of the whole store instead
\* of the pages it was given
FilesToDelete_Relisted(objs, now, retention_days) ==
    KeysOf(SelectSeq(bucket, LAMBDA o : IsOld(o.LastModified, now, retention_days)))

\* files_to_delete (storage.py lines 274-281)
FilesToDelete(objs, now, retention_days) ==
    KeysOf(SelectSeq(objs, LAMBDA o : IsOld(o.LastModified, now, retention_days)))

\* the batches (storage.py lines 299-317): delete_objects raises for batch
\* number failBatch (0: for none), a ClientError or another exception as
\* failKind says, and answers the keys in errKeys under 'Errors', the others
\* under 'Deleted'
RECURSIVE DeleteBatches(_, _, _, _, _, _)
DeleteBatches(files, i, acc, errKeys, failBatch, failKind) ==
    IF i > Len(files) THEN acc
    ELSE LET batch == SubSeq(files, i, Min(i + BATCH_SIZE - 1, Len(files)))
             reqs == Append(acc.calls, Call("delete_objects", 0, batch))
             deleted == Range(batch) \ errKeys
         IN IF failBatch = ((i - 1) \div BATCH_SIZE) + 1
            THEN [acc EXCEPT !.calls = reqs, !.raised = failKind]
            ELSE DeleteBatches(files, i + BATCH_SIZE,
                               [acc EXCEPT !.calls = reqs,
                                           !.removed = acc.removed \cup deleted,
                                           !.errors = acc.errors
                                                      \cup (Range(batch) \cap errKeys),
                                           !.deleted_count = acc.deleted_count
                                                             + Cardinality(deleted)],
                               errKeys, failBatch, failKind)

\* what delete_old_files returns after its batches: the count so far when
\* ClientError ended them (storage.py lines 321-324), 0 when another
\* exception did (storage.py lines 330-333)
BatchesReturn(r) == IF r.raised = "Exception" THEN 0 ELSE r.deleted_count

NumBatches(files) == (Len(files) + BATCH_SIZE - 1) \div BATCH_SIZE

\* the first and the last key of every batch of files
BatchEnds(files) ==
    {i \in DOMAIN files : i % BATCH_SIZE \in {0, 1} \/ i = Len(files)}

\* the sets of keys delete_objects may answer under 'Errors': any keys of a
\* short list; of a long one none, one key at the end of a batch, or all of
\* these keys
ErrorSets(files) ==
    IF Len(files) <= MaxStore THEN SUBSET Range(files)
    ELSE {{}, {files[i] : i \in BatchEnds(files)}}
         \cup {{files[i]} : i \in BatchEnds(files)}

\* what the paginator may produce for the objects under prefix
PageOutcomes(prefix) ==
    {[failed |-> p.failed, objs |-> p.objs] :
        p \in {Paginate(pg, failAt, 1, << >>, << >>) :
                 pg \in Paginations(UnderPrefix(bucket, prefix)), failAt \in 0..MaxPages}}

delete_old_files ==
    /\ Idle
    /\ \E dry_run \in BOOLEAN, prefix \in Prefixes, built \in Builds :
           LET client == get_s3_client(built) IN
           \/ /\ client = "None"
              /\ s3_client' = client
              /\ op' = "delete_old_files"
              /\ args' = Args(dry_run, prefix)
              /\ pages' = << >>
              /\ failed_page' = 0
              /\ enumerations' = 0
              /\ all_files' = None
              /\ selected' = << >>
              /\ calls' = << >>
              /\ errors' = {}
              /\ raised' = "none"
              /\ ret' = Count(0)
              /\ UNCHANGED <<config, bucket, steps, callers>>
           \/ /\ client # "None"
              /\ \E p \in PageOutcomes(prefix) :
                 LET files == IF p.failed THEN << >>
                              ELSE FilesToDelete(p.objs, Today, RETENTION_DAYS)
                     real == ~dry_run /\ files # << >>
                 IN \E errKeys \in (IF real THEN ErrorSets(files) ELSE {{}}),
                       failBatch \in 0..(IF real THEN NumBatches(files) ELSE 0) :
                    \E failKind \in (IF failBatch = 0 THEN {"none"}
                                     ELSE {"ClientError", "Exception"}) :
                    LET r == IF real
                             THEN DeleteBatches(files, 1, [NoDeletes EXCEPT !.selected = files],
                                                errKeys, failBatch, failKind)
                             ELSE [NoDeletes EXCEPT !.selected = files]
                    IN /\ s3_client' = client
                       /\ op' = "delete_old_files"
                       /\ args' = Args(dry_run, prefix)
                       /\ pages' = << >>
                       /\ failed_page' = 0
                       /\ enumerations' = 1
                       /\ all_files' = IF p.failed THEN None ELSE List(KeysOf(p.objs))
                       /\ selected' = files
                       /\ calls' = r.calls
                       /\ errors' = r.errors
                       /\ raised' = r.raised
                       /\ ret' = IF real THEN Count(BatchesReturn(r)) ELSE Count(Len(files))
                       /\ bucket' = Remaining(bucket, r.removed)
                       /\ UNCHANGED <<config, steps, callers>>

\* ------------------------------------------------ the listing operations
list_storage_files_call ==
    /\ Idle
    /\ \E built \in Builds :
           LET client == get_s3_client(built) IN
           \E pg \in (IF client = "None" THEN {<< >>} ELSE Paginations(bucket)) :
           \E failAt \in 0..Len(pg) :
               LET r == list_storage_files(client, pg, failAt) IN
               /\ s3_client' = client
               /\ op' = "list_storage_files"
               /\ args' = NoArgs
               /\ pages' = pg
               /\ failed_page' = failAt
               /\ enumerations' = IF client = "None" THEN 0 ELSE 1
               /\ all_files' = r.ret
               /\ selected' = << >>
               /\ calls' = r.calls
               /\ errors' = {}
               /\ raised' = "none"
               /\ ret' = r.ret
               /\ UNCHANGED <<config, bucket, steps, callers>>

list_archive_files_call ==
    /\ Idle
    /\ \E dry_run \in BOOLEAN, prefix \in Prefixes, built \in Builds :
           LET client == get_s3_client(built) IN
           \E pg \in (IF client = "None" \/ dry_run THEN {<< >>}
                       ELSE Paginations(UnderPrefix(bucket, prefix))) :
           \E failAt \in 0..Len(pg) :
               LET r == list_archive_files(client, prefix, dry_run, pg, failAt) IN
               /\ s3_client' = client
               /\ op' = "list_archive_files"
               /\ args' = Args(dry_run, prefix)
               /\ pages' = pg
               /\ failed_page' = failAt
               /\ enumerations' = IF client = "None" \/ dry_run THEN 0 ELSE 1
               /\ all_files' = r.ret
               /\ selected' = << >>
               /\ calls' = r.calls
               /\ errors' = {}
               /\ raised' = "none"
               /\ ret' = r.ret
               /\ UNCHANGED <<config, bucket, steps, callers>>

Next ==
    \/ get_past_papers_from_storage
    \/ cleanup_old_files
    \/ delete_old_files
    \/ list_storage_files_call
    \/ list_archive_files_call
    \/ Continue

Spec == Init /\ [][Next]_vars

\* ------------------------- get_past_papers_from_storage on several editions
\* the objects of a bucket that holds several documents of one day: three of
\* today and one of yesterday
Editions(fmt) ==
    {StoredObject(Filename(Strftime(Feb01, fmt), "newspaper", "pdf"), Feb01),
     StoredObject(Filename(Strftime(Feb01, fmt), "newspaper", "html"), Feb01),
     StoredObject(Filename(Strftime(Feb01, fmt), "newspaper_2", "pdf"), Feb01),
     StoredObject(Filename(Strftime(Jan31, fmt), "newspaper", "pdf"), Jan31)}

InitEditions ==
    /\ DATE_FORMAT \in DateFormats
    /\ RETENTION_DAYS \in 0..MaxDays
    /\ S3_BUCKET_NAME \in {"", "newspapers"}
    /\ s3_client = "None"
    /\ bucket \in {b \in SeqsUpTo(Editions(DATE_FORMAT), MaxStore) : NoDuplicates(b)}
    /\ op = "none"
    /\ args = NoArgs
    /\ pages = << >>
    /\ failed_page = 0
    /\ enumerations = 0
    /\ all_files = None
    /\ selected = << >>
    /\ calls = << >>
    /\ errors = {}
    /\ raised = "none"
    /\ ret = None
    /\ steps = << >>
    /\ NoCallers
    /\ MailConfigured

NextEditions == get_past_papers_from_storage \/ Continue

SpecEditions == InitEditions /\ [][NextEditions]_vars

\* ------------------------------------------- upload_to_s3 and send_email
\* newspaper_filename (main.py line 166)
NewspaperFilename(target_date) == Filename(Strftime(target_date, ISO), "newspaper", "pdf")

\* the keys an upload or a URL is asked for: today's paper and yesterday's
UrlRequestKeys == {NewspaperFilename(Today), NewspaperFilename(Today - 1)}

\* what client.upload_file may raise
UploadFailures == {"FileNotFoundError", "NoCredentialsError", "ClientError", "Exception"}

\* upload_to_s3(local_file_path, s3_key, dry_run) once get_s3_client() answered
\* client; upFail: what client.upload_file raises ("none": it succeeds)
upload_to_s3(client, s3_key, dry_run, upFail) ==
    IF client = "None" THEN [ok |-> FALSE, calls |-> << >>, uploaded |-> FALSE]
    ELSE IF dry_run THEN [ok |-> TRUE, calls |-> << >>, uploaded |-> FALSE]
    ELSE [ok |-> upFail = "none",
          calls |-> <<Call("upload_file", 0, <<s3_key>>)>>,
          uploaded |-> upFail = "none"]

\* the store after an object was put under a key: a key it holds is overwritten
PutObject(objs, obj) ==
    IF \E i \in DOMAIN objs : objs[i].Key = obj.Key
    THEN [i \in DOMAIN objs |-> IF objs[i].Key = obj.Key THEN obj ELSE objs[i]]
    ELSE Append(objs, obj)

upload_to_s3_call ==
    /\ Idle
    /\ \E dry_run \in BOOLEAN, built \in Builds, s3_key \in UrlRequestKeys,
          upFail \in UploadFailures \cup {"none"} :
           LET r == upload_to_s3(get_s3_client(built), s3_key, dry_run, upFail)
           IN /\ s3_client' = get_s3_client(built)
              /\ bucket' = IF r.uploaded THEN PutObject(bucket, StoredObject(s3_key, Today))
                           ELSE bucket
              /\ op' = "upload_to_s3"
              /\ args' = Args(dry_run, << >>)
              /\ pages' = << >>
              /\ failed_page' = 0
              /\ enumerations' = 0
              /\ all_files' = None
              /\ selected' = << >>
              /\ calls' = r.calls
              /\ errors' = IF r.calls # << >> /\ ~r.ok THEN {s3_key} ELSE {}
              /\ raised' = "none"
              /\ ret' = Bool(r.ok)
              /\ UNCHANGED <<config, steps, callers>>

\* the entries of a recipients setting: a non-string, the empty string, blanks
\* and an address
MailEntries == {"None", "", " ", "reader@example.com"}

\* str.strip()
Strip(e) == IF e = " " THEN "" ELSE e

StripAll(seq) == IF seq = << >> THEN << >> ELSE [i \in DOMAIN seq |-> Strip(seq[i])]

\* not EMAIL_TO
NoRecipients(to) ==
    \/ to.type = "none"
    \/ (to.type = "str" /\ to.items = <<"">>)
    \/ (to.type = "list" /\ to.items = << >>)

\* recipients (email_sender.py lines 68-79), for a string or a list
ParseRecipients(to) ==
    IF to.type = "str"
    THEN SelectSeq(StripAll(to.items), LAMBDA e : e # "")
    ELSE StripAll(SelectSeq(to.items, LAMBDA e : e \notin {"", "None"}))

\* _send_with_sendgrid: sg.send answers a 2xx status, another status, or raises
_send_with_sendgrid(delivery) ==
    [ret |-> Bool(delivery = "sent"), calls |-> <<Call("sendgrid.send", 0, << >>)>>,
     raised |-> "none"]

\* _send_with_smtp: every exception it catches it raises again
_send_with_smtp(delivery) ==
    IF delivery = "sent"
    THEN [ret |-> Bool(TRUE), calls |-> <<Call("smtplib.SMTP", 0, << >>)>>, raised |-> "none"]
    ELSE [ret |-> None, calls |-> <<Call("smtplib.SMTP", 0, << >>)>>, raised |-> delivery]

Unsent == [ret |-> Bool(FALSE), calls |-> << >>, raised |-> "none"]

\* which way send_email delivers (lines 114-123)
Method ==
    IF SENDGRID_API_KEY # "" THEN "sendgrid"
    ELSE IF SMTP_HOST # "" /\ SMTP_USER # "" /\ SMTP_PASSWORD # "" THEN "smtp"
    ELSE "none"

\* send_email without its dry-run branch (lines 109-112)
send_email_NoDryRun(dry_run, delivery) ==
    IF EMAIL_FROM = "" \/ NoRecipients(EMAIL_TO) THEN Unsent
    ELSE IF EMAIL_TO.type \notin {"str", "list"} THEN Unsent
    ELSE IF ParseRecipients(EMAIL_TO) = << >> THEN Unsent
    ELSE IF template \in {"no_dir", "no_file"} THEN Unsent
    ELSE IF template = "broken" THEN Unsent
    ELSE IF Method = "sendgrid" THEN _send_with_sendgrid(delivery)
    ELSE IF Method = "smtp" THEN _send_with_smtp(delivery)
    ELSE Unsent

\* send_email(target_date, today_paper_url, past_papers, thumbnail_path, dry_run)
send_email(dry_run, delivery) ==
    IF EMAIL_FROM = "" \/ NoRecipients(EMAIL_TO) THEN Unsent
    ELSE IF EMAIL_TO.type \notin {"str", "list"} THEN Unsent
    ELSE IF ParseRecipients(EMAIL_TO) = << >> THEN Unsent
    ELSE IF template \in {"no_dir", "no_file"} THEN Unsent
    ELSE IF template = "broken" THEN Unsent
    ELSE IF dry_run THEN [ret |-> Bool(TRUE), calls |-> << >>, raised |-> "none"]
    ELSE IF Method = "sendgrid" THEN _send_with_sendgrid(delivery)
    ELSE IF Method = "smtp" THEN _send_with_smtp(delivery)
    ELSE Unsent

\* what the delivery service does with a message
Deliveries(method) ==
    IF method = "sendgrid" THEN {"sent", "status", "Exception"}
    ELSE IF method = "smtp"
         THEN {"sent", "SMTPAuthenticationError", "SMTPConnectError", "IOError", "Exception"}
         ELSE {"sent"}

send_email_call ==
    /\ Idle
    /\ \E dry_run \in BOOLEAN, delivery \in Deliveries(Method) :
           LET r == send_email(dry_run, delivery)
           IN /\ op' = "send_email"
              /\ args' = Args(dry_run, << >>)
              /\ pages' = << >>
              /\ failed_page' = 0
              /\ enumerations' = 0
              /\ all_files' = None
              /\ selected' = << >>
              /\ calls' = r.calls
              /\ errors' = {}
              /\ raised' = r.raised
              /\ ret' = r.ret
              /\ UNCHANGED <<config, s3_client, bucket, steps, callers>>

RecipientSettings ==
    {Recipients("none", << >>), Recipients("other", << >>)}
    \cup {Recipients("list", l) : l \in SeqsUpTo(MailEntries, MaxRecipients)}
    \cup {Recipients("str", l) :
            l \in SeqsUpTo(MailEntries \ {"None"}, MaxRecipients) \ {<< >>}}

InitDelivery ==
    /\ DATE_FORMAT = ISO
    /\ RETENTION_DAYS = MaxDays
    /\ S3_BUCKET_NAME \in {"", "newspapers"}
    /\ s3_client = "None"
    /\ bucket = << >>
    /\ op = "none"
    /\ args = NoArgs
    /\ pages = << >>
    /\ failed_page = 0
    /\ enumerations = 0
    /\ all_files = None
    /\ selected = << >>
    /\ calls = << >>
    /\ errors = {}
    /\ raised = "none"
    /\ ret = None
    /\ steps = << >>
    /\ NoCallers
    /\ EMAIL_FROM \in {"", "news@example.com"}
    /\ EMAIL_TO \in RecipientSettings
    /\ SENDGRID_API_KEY \in {"", "key"}
    /\ SMTP_HOST \in {"", "smtp.example.com"}
    /\ SMTP_USER \in {"", "news"}
    /\ SMTP_PASSWORD \in {"", "secret"}
    /\ template \in {"no_dir", "no_file", "broken", "ok"}

NextDelivery == upload_to_s3_call \/ send_email_call \/ Continue

SpecDelivery == InitDelivery /\ [][NextDelivery]_vars

\* ------------------------------------------------ the pipeline: main
\* the names the modules main imports define (config.py, storage.py)
ConfigModule == {"Configuration", "config", "load_config"}

StorageModule ==
    {"init_s3_client", "get_s3_client", "upload_to_s3", "upload_to_storage",
     "delete_from_storage", "list_storage_files", "get_file_url", "list_archive_files",
     "generate_presigned_url", "delete_old_files"}

\* a call main made on another module and whether it succeeded
Step(call, ok) == [call |-> call, ok |-> ok]

\* website.login_and_download(...): the browser-driven login and download, an
\* external collaborator that reports whether it obtained the day's document
login_and_download(succeeds) == [download_success |-> succeeds, file_format |-> "pdf"]

\* what a run of main comes to
Outcome(ok, trace, reqs, exc) == [ret |-> Bool(ok), steps |-> trace, calls |-> reqs, raised |-> exc]

\* Configuration.load(env_file, config_path): every path ends without a value,
\* at the bare return of line 146 or at the end of the function
load(env_file, config_path) == None

\* main.py lines 183-207, after the download: the URL of today's paper, the
\* past papers, the email; an exception of send_email is caught at line 215
MainLinksAndEmail(client, target_date, dry_run, trace, url_fails, delivery) ==
    LET u == get_file_url(client, NewspaperFilename(target_date), url_fails)
        t4 == Append(trace, Step("storage.get_file_url", ~u.ret.none))
        e == send_email(dry_run, delivery)
        sent == e.ret = Bool(TRUE)
    IN IF u.ret.none THEN Outcome(FALSE, t4, u.calls, "none")
       ELSE IF "get_past_papers_from_storage" \notin StorageModule
            THEN Outcome(FALSE, t4, u.calls, "AttributeError")
            ELSE Outcome(sent,
                         Append(Append(t4, Step("storage.get_past_papers_from_storage", TRUE)),
                                Step("email_sender.send_email", sent)),
                         u.calls \o e.calls, e.raised)

\* main(target_date_str, dry_run): config.load() (line 156), the download
\* (lines 168-179) and the rest; an attribute a module does not define raises
\* AttributeError, which main catches (lines 212-214) to return False
Main(client, target_date, dry_run, download_ok, url_fails, delivery) ==
    IF "load" \notin ConfigModule THEN Outcome(FALSE, << >>, << >>, "AttributeError")
    ELSE IF load("", "").none
         THEN Outcome(FALSE, <<Step("config.load", FALSE)>>, << >>, "none")
         ELSE LET d == login_and_download(download_ok)
                  t3 == <<Step("config.load", TRUE),
                          Step("website.login_and_download", d.download_success)>>
              IN IF ~d.download_success THEN Outcome(FALSE, t3, << >>, "none")
                 ELSE MainLinksAndEmail(client, target_date, dry_run, t3, url_fails,
                                        delivery)

main ==
    /\ Idle
    /\ \E dry_run, download_ok, url_fails \in BOOLEAN, built \in Builds,
          delivery \in Deliveries(Method) :
           LET r == Main(get_s3_client(built), Today, dry_run, download_ok, url_fails,
                         delivery)
               reached == "storage.get_file_url" \in {r.steps[i].call : i \in DOMAIN r.steps}
           IN /\ s3_client' = IF reached THEN get_s3_client(built) ELSE s3_client
              /\ op' = "main"
              /\ args' = Args(dry_run, << >>)
              /\ pages' = << >>
              /\ failed_page' = 0
              /\ enumerations' = 0
              /\ all_files' = None
              /\ selected' = << >>
              /\ calls' = r.calls
              /\ errors' = {}
              /\ raised' = r.raised
              /\ ret' = r.ret
              /\ steps' = r.steps
              /\ UNCHANGED <<config, bucket, callers>>

generate_presigned_url_call ==
    /\ Idle
    /\ \E dry_run, fails \in BOOLEAN, built \in Builds, s3_key \in UrlRequestKeys :
           LET r == generate_presigned_url(get_s3_client(built), s3_key, dry_run, fails)
           IN /\ s3_client' = get_s3_client(built)
              /\ op' = "generate_presigned_url"
              /\ args' = Args(dry_run, << >>)
              /\ pages' = << >>
              /\ failed_page' = 0
              /\ enumerations' = 0
              /\ all_files' = None
              /\ selected' = << >>
              /\ calls' = r.calls
              /\ errors' = IF r.ret.none /\ r.calls # << >> THEN {s3_key} ELSE {}
              /\ raised' = "none"
              /\ ret' = r.ret
              /\ UNCHANGED <<config, bucket, steps, callers>>

NextPipeline == main \/ generate_presigned_url_call \/ Continue

SpecPipeline == InitEditions /\ [][NextPipeline]_vars

\* ------------------------------------- every operation of storage.py
NextStorage ==
    \/ Next
    \/ upload_to_s3_call
    \/ generate_presigned_url_call

SpecStorage == InitEditions /\ [][NextStorage]_vars

\* --------------------------------------------- cleanup_old_files twice
NextTwice == cleanup_old_files \/ cleanup_old_files_again \/ Continue

SpecTwice == Init /\ [][NextTwice]_vars

\* ------------------------------------------- delete_old_files on long lists
\* the number of batches the longest list needs
MaxBatches == 3

\* an object that was archived on the first day of the year
Archived(k, fmt) ==
    StoredObject(Filename(Strftime(ToOrdinal(EpochYear, 1, 1), fmt), ToString(k), "pdf"),
                 ToOrdinal(EpochYear, 1, 1))

\* lengths around the ends of the batches: 1, 500, 1000, 1001, 1500, ...
LongLengths ==
    UNION {{b * BATCH_SIZE + 1, b * BATCH_SIZE + BATCH_SIZE \div 2, (b + 1) * BATCH_SIZE}
           : b \in 0..(MaxBatches - 1)}

InitLong ==
    /\ DATE_FORMAT = ISO
    /\ RETENTION_DAYS = MaxDays
    /\ S3_BUCKET_NAME = "newspapers"
    /\ s3_client = "None"
    /\ \E n \in LongLengths : bucket = [k \in 1..n |-> Archived(k, DATE_FORMAT)]
    /\ op = "none"
    /\ args = NoArgs
    /\ pages = << >>
    /\ failed_page = 0
    /\ enumerations = 0
    /\ all_files = None
    /\ selected = << >>
    /\ calls = << >>
    /\ errors = {}
    /\ raised = "none"
    /\ ret = None
    /\ steps = << >>
    /\ NoCallers
    /\ MailConfigured

\* one purge of each long list
NextLong == delete_old_files

SpecLong == InitLong /\ [][NextLong]_vars

\* ------------------------------------- get_s3_client called concurrently
\* the client objects session.client returns, in the order it returns them
Handles == <<"client", "client_2", "client_3", "client_4">>

\* everything but the module variable s3_client and the callers
rest == <<config, bucket, op, args, pages, failed_page, enumerations, all_files,
          selected, calls, errors, raised, ret, steps>>

\* a thread calls get_s3_client()
Enter(c) ==
    /\ pc[c] = "idle"
    /\ pc' = [pc EXCEPT ![c] = "get"]
    /\ UNCHANGED <<s3_client, made, got, sessions, rest>>

\* get_s3_client, line 68: if s3_client is None
TestInGet(c) ==
    /\ pc[c] = "get"
    /\ pc' = [pc EXCEPT ![c] = IF s3_client = "None" THEN "init" ELSE "return"]
    /\ UNCHANGED <<s3_client, made, got, sessions, rest>>

\* init_s3_client, lines 32-35: if s3_client is None, if not S3_BUCKET_NAME;
\* line 64 (already initialized) returns True and get_s3_client goes on to
\* its return s3_client, line 35 returns False and get_s3_client returns None
TestInInit(c) ==
    /\ pc[c] = "init"
    /\ IF s3_client # "None" THEN pc' = [pc EXCEPT ![c] = "return"] /\ got' = got
       ELSE IF S3_BUCKET_NAME = ""
            THEN pc' = [pc EXCEPT ![c] = "done"] /\ got' = [got EXCEPT ![c] = "None"]
            ELSE pc' = [pc EXCEPT ![c] = "construct"] /\ got' = got
    /\ UNCHANGED <<s3_client, made, sessions, rest>>

\* init_s3_client, lines 39-44: boto3.Session(...) and session.client(...)
\* return a new client, or raise
Construct(c) ==
    /\ pc[c] = "construct"
    /\ sessions < Len(Handles)
    /\ \/ /\ sessions' = sessions + 1
          /\ made' = [made EXCEPT ![c] = Handles[sessions + 1]]
          /\ pc' = [pc EXCEPT ![c] = "store"]
       \/ /\ pc' = [pc EXCEPT ![c] = "except"]
          /\ UNCHANGED <<made, sessions>>
    /\ UNCHANGED <<s3_client, got, rest>>

\* init_s3_client, line 44: the assignment s3_client = ..., then return True
Store(c) ==
    /\ pc[c] = "store"
    /\ s3_client' = made[c]
    /\ made' = [made EXCEPT ![c] = "None"]
    /\ pc' = [pc EXCEPT ![c] = "return"]
    /\ UNCHANGED <<got, sessions, rest>>

\* init_s3_client, lines 50-63: s3_client = None and return False;
\* get_s3_client returns None
Except(c) ==
    /\ pc[c] = "except"
    /\ s3_client' = "None"
    /\ got' = [got EXCEPT ![c] = "None"]
    /\ pc' = [pc EXCEPT ![c] = "done"]
    /\ UNCHANGED <<made, sessions, rest>>

\* get_s3_client, line 71: return s3_client
Return(c) ==
    /\ pc[c] = "return"
    /\ got' = [got EXCEPT ![c] = s3_client]
    /\ pc' = [pc EXCEPT ![c] = "done"]
    /\ UNCHANGED <<s3_client, made, sessions, rest>>

\* the caller goes on with the client it got and may call again later
Leave(c) ==
    /\ pc[c] = "done"
    /\ pc' = [pc EXCEPT ![c] = "idle"]
    /\ UNCHANGED <<s3_client, made, got, sessions, rest>>

InitCallers ==
    /\ DATE_FORMAT = ISO
    /\ RETENTION_DAYS = MaxDays
    /\ S3_BUCKET_NAME \in {"", "newspapers"}
    /\ s3_client = "None"
    /\ bucket = << >>
    /\ op = "none"
    /\ args = NoArgs
    /\ pages = << >>
    /\ failed_page = 0
    /\ enumerations = 0
    /\ all_files = None
    /\ selected = << >>
    /\ calls = << >>
    /\ errors = {}
    /\ raised = "none"
    /\ ret = None
    /\ steps = << >>
    /\ NoCallers
    /\ MailConfigured

NextCallers ==
    \E c \in Callers :
        \/ Enter(c)
        \/ TestInGet(c)
        \/ TestInInit(c)
        \/ Construct(c)
        \/ Store(c)
        \/ Except(c)
        \/ Return(c)
        \/ Leave(c)

SpecCallers == InitCallers /\ [][NextCallers]_vars

\* ================================================================ claims
\* the keys the links of a recent-links result point at
LinkedKeys(links) == {links[i].url.Key : i \in DOMAIN links}

\* the calendar date a key names under the configured format
Dated(k) == Parses(k.date_str, DATE_FORMAT)
DateOf(k) == Strptime(k.date_str, DATE_FORMAT)

\* the keys a delete request of the last operation carried
DeleteCallKeys ==
    UNION {Range(calls[i].keys) :
             i \in {j \in DOMAIN calls : calls[j].api \in {"delete_object", "delete_objects"}}}

Listed == Range(all_files.list)

\* C1: cleanup_old_files selects a listed key for deletion if and only if its
\* date token parses and the date is strictly before target_date - days; no
\* delete request carries a key dated target_date - days or later.
C1_PurgeSelectsExactlyExpired ==
    op = "cleanup_old_files" =>
        /\ Range(selected) =
             {k \in Listed : Dated(k) /\ DateOf(k) < Today - RETENTION_DAYS}
        /\ \A k \in DeleteCallKeys : Dated(k) /\ DateOf(k) < Today - RETENTION_DAYS

\* a purge that selected a key, over a listing that also holds a key dated
\* exactly target_date - days and a key that does not parse
C1_Witness ==
    /\ op = "cleanup_old_files"
    /\ selected # << >>
    /\ \E k \in Listed : Dated(k) /\ DateOf(k) = Today - RETENTION_DAYS
    /\ \E k \in Listed : ~Dated(k)

\* C3: every link of get_past_papers_from_storage points at a listed key that
\* parses, is a Document ("newspaper" in the name, .pdf or .html) and is dated
\* within [target_date - (days - 1), target_date].
C3_LinksOnlyCurrentDocuments ==
    op = "get_past_papers_from_storage" =>
        \A k \in LinkedKeys(ret.list) :
            /\ k \in Listed
            /\ Dated(k)
            /\ k.name = "newspaper"
            /\ k.ext \in {"pdf", "html"}
            /\ DateOf(k) >= Today - (RETENTION_DAYS - 1)
            /\ DateOf(k) <= Today

\* links were returned from a listing that also holds a future-dated
\* document and a thumbnail dated inside the window
C3_Witness ==
    /\ op = "get_past_papers_from_storage"
    /\ ret.list # << >>
    /\ \E k \in Listed : Dated(k) /\ DateOf(k) > Today /\ k.name = "newspaper"
    /\ \E k \in Listed :
          /\ Dated(k)
          /\ k.name = "thumbnail"
          /\ DateOf(k) >= Today - (RETENTION_DAYS - 1)
          /\ DateOf(k) <= Today

\* C4: on one listing, no key is both linked as current and selected for
\* deletion, and a key dated exactly target_date - days is in neither set.
C4_CurrentAndExpiredDisjoint ==
    /\ op = "get_past_papers_from_storage" =>
          LET expired == ExpiredKeys(all_files.list, DATE_FORMAT, Today, RETENTION_DAYS)
              linked == LinkedKeys(ret.list)
          IN /\ linked \cap expired = {}
             /\ \A k \in Listed :
                   (Dated(k) /\ DateOf(k) = Today - RETENTION_DAYS) =>
                       (k \notin linked /\ k \notin expired)
    /\ op = "cleanup_old_files" =>
          LET linked == LinkedKeys(PastPapers(all_files.list, Today, RETENTION_DAYS, {},
                                              DATE_FORMAT).links)
              expired == Range(selected)
          IN /\ linked \cap expired = {}
             /\ \A k \in Listed :
                   (Dated(k) /\ DateOf(k) = Today - RETENTION_DAYS) =>
                       (k \notin linked /\ k \notin expired)

\* a purge selected a key from a listing that also holds a key dated exactly
\* target_date - days and a key the recent links would point at
C4_Witness ==
    /\ op = "cleanup_old_files"
    /\ selected # << >>
    /\ \E k \in Listed : Dated(k) /\ DateOf(k) = Today - RETENTION_DAYS
    /\ PastPapers(all_files.list, Today, RETENTION_DAYS, {}, DATE_FORMAT).links # << >>

\* the LastModified the store holds for a key
LastModifiedOf(k) == (CHOOSE o \in Universe(DATE_FORMAT) : o.Key = k).LastModified

\* the keys a URL was asked for
UrlCallKeys ==
    UNION {Range(calls[i].keys) :
             i \in {j \in DOMAIN calls : calls[j].api = "generate_presigned_url"}}

\* the listed Documents dated inside the window of the recent links
CurrentDocuments ==
    {k \in Listed :
        /\ Dated(k)
        /\ k.name \in {"newspaper", "newspaper_2"}
        /\ k.ext \in {"pdf", "html"}
        /\ DateOf(k) >= Today - (RETENTION_DAYS - 1)
        /\ DateOf(k) <= Today}

UrlIssuanceSucceeded == UrlCallKeys \subseteq LinkedKeys(ret.list)

\* C5: with days = d, when the listing holds Documents on at least d distinct
\* dates of the window and URL issuance succeeds, the recent links carry
\* exactly d distinct dates (none for d = 0).
C5_ExactlyDDates ==
    (/\ op = "get_past_papers_from_storage"
     /\ ~all_files.none
     /\ UrlIssuanceSucceeded
     /\ Cardinality({DateOf(k) : k \in CurrentDocuments}) >= RETENTION_DAYS)
    => Cardinality({ret.list[i].date : i \in DOMAIN ret.list}) = RETENTION_DAYS

\* C6: when URL issuance succeeds, every Document of the window is linked,
\* also the Documents that share their date with another one.
C6_DuplicatesRetained ==
    (/\ op = "get_past_papers_from_storage"
     /\ ~all_files.none
     /\ UrlIssuanceSucceeded)
    => \A k1, k2 \in CurrentDocuments :
          (k1 # k2 /\ DateOf(k1) = DateOf(k2)) =>
              (k1 \in LinkedKeys(ret.list) /\ k2 \in LinkedKeys(ret.list))

\* the place of a key in the enumeration
IndexIn(seq, k) == CHOOSE i \in DOMAIN seq : seq[i] = k

\* C7: the recent links are in calendar order, most recent first, and links
\* of one date are in enumeration order, under every date format.
C7_MostRecentFirst ==
    op = "get_past_papers_from_storage" =>
        \A i, j \in DOMAIN ret.list :
            i < j =>
                LET a == ret.list[i].url.Key
                    b == ret.list[j].url.Key
                IN /\ DateOf(a) >= DateOf(b)
                   /\ DateOf(a) = DateOf(b) =>
                         IndexIn(all_files.list, a) < IndexIn(all_files.list, b)

\* the count a dry-run purge reports: the listed keys its rule marks expired
ExpectedPurgeCount ==
    IF op = "cleanup_old_files"
    THEN Cardinality({k \in Listed : Dated(k) /\ DateOf(k) < Today - RETENTION_DAYS})
    ELSE Cardinality({k \in Listed : LastModifiedOf(k) < Today - RETENTION_DAYS})

DryRunPurge == op \in {"cleanup_old_files", "delete_old_files"} /\ args.dry_run

RECURSIVE Flatten(_)
Flatten(pgs) == IF pgs = << >> THEN << >> ELSE Head(pgs) \o Flatten(Tail(pgs))

\* C9: when the store answers a listing in N pages and no request fails,
\* list_storage_files and list_archive_files return the objects of all N
\* pages in page order, each once, also when a page carries no Contents.
C9_AllPagesConcatenated ==
    (/\ op \in {"list_storage_files", "list_archive_files"}
     /\ pages # << >>
     /\ failed_page = 0)
    => /\ ~ret.none
       /\ ret.list = IF op = "list_storage_files"
                     THEN KeysOf(Flatten(pages)) ELSE Flatten(pages)

\* C10: a listing operation either returns every object under the prefix or
\* reports a failure (None); what it returns as a list is never partial.
C10_ListingAtomic ==
    /\ op = "list_storage_files" =>
          (ret.none \/ ret.list = KeysOf(bucket))
    /\ (op = "list_archive_files" /\ ~args.dry_run) =>
          (ret.none \/ ret.list = UnderPrefix(bucket, args.prefix))

\* a delete_old_files run that found old files and is not a dry run
RealBulkPurge == op = "delete_old_files" /\ ~args.dry_run /\ selected # << >>

\* the bulk-delete requests of the last operation, in the order they were made
DeleteRequests == SelectSeq(calls, LAMBDA c : c.api = "delete_objects")

\* the keys the bulk-delete requests carried, request after request
RequestedKeys == Flatten([i \in DOMAIN DeleteRequests |-> DeleteRequests[i].keys])

\* ceil(n / 1000)
BatchesNeeded(n) == (n + 999) \div 1000

\* C11: in a real delete_old_files run every bulk-delete request carries at
\* most 1000 keys, the requests carry the expired keys in list order, each
\* key in exactly one request, and there are ceil(n / 1000) requests for n
\* expired keys (2500 keys: 1000, 1000, 500).
C11_BatchesOfAtMost1000 ==
    RealBulkPurge =>
        /\ \A i \in DOMAIN DeleteRequests : Len(DeleteRequests[i].keys) <= 1000
        /\ RequestedKeys = selected
        /\ Len(DeleteRequests) = BatchesNeeded(Len(selected))

\* the expired keys that are no longer in the store after the operation
DeletedKeys == Range(selected) \ Range(KeysOf(bucket))

\* C12: a delete batch that fails, in part (keys under 'Errors') or as a
\* whole (delete_objects raises), does not stop the batches after it: every
\* batch is requested, and the count returned is the number of keys deleted
\* over all batches.
C12_BatchFailureDoesNotAbort ==
    RealBulkPurge =>
        /\ Len(DeleteRequests) = BatchesNeeded(Len(selected))
        /\ ret.count = Cardinality(DeletedKeys)

\* a purge that had a client and whose enumeration of the store failed
PurgeListingFailed ==
    /\ op \in {"cleanup_old_files", "delete_old_files"}
    /\ s3_client = "client"
    /\ all_files.none

\* a purge that enumerated the store and found nothing to delete
PurgeFoundNothing ==
    /\ op \in {"cleanup_old_files", "delete_old_files"}
    /\ ~all_files.none
    /\ selected = << >>

\* what a purge that found nothing to delete gives its caller: cleanup_old_files
\* nothing ("No files found in storage") or a count of 0, delete_old_files 0
NothingToPurge == {None, Count(0)}

\* C13: a purge whose listing failed gives its caller an outcome that differs
\* from the outcome of a purge that listed the store and found nothing
\* expired: a listing failure is never reported as no files, zero deleted.
C13_ListingFailureDistinguishable ==
    PurgeListingFailed => ret \notin NothingToPurge

\* what get_past_papers_from_storage returns for a store it listed and found
\* no matching file in
NoMatchingFiles == List(<< >>)

\* C14: when the listing inside get_past_papers_from_storage fails, the
\* operation hands an error to its caller; it does not return the empty list
\* it returns for a bucket without matching files.
C14_ListingFailurePropagates ==
    (/\ op = "get_past_papers_from_storage"
     /\ s3_client = "client"
     /\ all_files.none)
    => ret # NoMatchingFiles

\* get_past_papers_from_storage asked a URL for a key and got none
UrlIssuanceFailed == op = "get_past_papers_from_storage" /\ errors # {}

\* C15: when get_past_papers_from_storage gets no URL for a key of the
\* window, only that key is omitted: a URL is still asked for every other
\* Document of the window, and the links returned are those of the keys a URL
\* was issued for.
C15_UrlFailureOmitsOnlyThatKey ==
    UrlIssuanceFailed =>
        /\ CurrentDocuments \subseteq UrlCallKeys
        /\ LinkedKeys(ret.list) = CurrentDocuments \ errors

\* a real purge that logged the failure of an individual delete: the store
\* refused the key, or answered that another actor had removed the object
ItemDeleteFailed ==
    /\ op \in {"cleanup_old_files", "delete_old_files"}
    /\ ~args.dry_run
    /\ errors # {}

\* C16: when an individual delete fails (the object was removed by another
\* actor after the enumeration, or the store refuses the key), the purge
\* records the failure for that key and goes on: every other expired key is
\* still sent for deletion, and the purge returns its count; it never stops
\* early.
C16_ItemFailureDoesNotStopPurge ==
    ItemDeleteFailed =>
        /\ errors \subseteq Range(selected)
        /\ Range(selected) \subseteq DeleteCallKeys
        /\ ret.count = Cardinality(Range(selected) \ errors)

\* C17: when callers invoke get_s3_client concurrently while s3_client is
\* None, a client is constructed at most once, and the callers that get a
\* client get the same one.
C17_ClientConstructedOnce ==
    /\ sessions <= 1
    /\ \A c1, c2 \in Callers :
          (/\ pc[c1] = "done"
           /\ pc[c2] = "done"
           /\ got[c1] # "None"
           /\ got[c2] # "None")
          => got[c1] = got[c2]

LifecycleOp ==
    op \in {"get_past_papers_from_storage", "cleanup_old_files", "delete_old_files"}

\* the keys the last operation decided anything about: selected for deletion,
\* sent in a delete request, asked a URL for, or linked
Decisions == Range(selected) \cup DeleteCallKeys \cup UrlCallKeys \cup LinkedKeys(ret.list)

\* C18 as stated: get_past_papers_from_storage, cleanup_old_files and
\* delete_old_files each enumerate the store exactly once per invocation and
\* decide about keys of that one snapshot only.
C18_ExactlyOneEnumeration ==
    LifecycleOp =>
        /\ enumerations = 1
        /\ Decisions \subseteq Listed

\* C18 amended: each of the three operations enumerates the store at most
\* once per invocation: get_past_papers_from_storage and cleanup_old_files
\* exactly once, delete_old_files once when it has a store client and not at
\* all when it has none (it returns 0 first); every key it decides about is a
\* key of that one snapshot.
C18_AtMostOneEnumeration ==
    LifecycleOp =>
        /\ enumerations <= 1
        /\ op # "delete_old_files" => enumerations = 1
        /\ op = "delete_old_files" =>
              enumerations = (IF s3_client = "client" THEN 1 ELSE 0)
        /\ Decisions \subseteq Listed
        /\ enumerations = 0 => Decisions = {}

\* delete_old_files selected keys from a snapshot taken under a prefix while
\* the store also holds an old object outside the prefix
C18_Witness ==
    /\ op = "delete_old_files"
    /\ enumerations = 1
    /\ selected # << >>
    /\ \E o \in Range(bucket) :
          /\ o.Key \notin Listed
          /\ o.LastModified < Today - RETENTION_DAYS

\* C19: URL issuance in dry-run mode returns a placeholder URL that carries the
\* dry-run marker and makes no call on the store client, for every key and
\* whether or not a store client can be initialised; a dry run of main issues
\* no URL through the client
DryRunUrlIssuance == op = "generate_presigned_url" /\ args.dry_run

C19_DryRunUrlIsPlaceholder ==
    /\ DryRunUrlIssuance =>
          /\ ~ret.none
          /\ ret.list[1].simulated
          /\ ret.list[1].Key \in UrlRequestKeys
          /\ calls = << >>
    /\ (op = "main" /\ args.dry_run) =>
          \A i \in DOMAIN calls : calls[i].api # "generate_presigned_url"

\* C20: a run of main goes through download, archive, issue links, email in this
\* order and purges stale artifacts: a run that reaches the email step has
\* uploaded the document before and performs a purge, and a run in which no
\* call fails reaches the email step
StepCalls == [i \in DOMAIN steps |-> steps[i].call]

Position(call) ==
    IF \E i \in DOMAIN steps : steps[i].call = call
    THEN CHOOSE i \in DOMAIN steps : steps[i].call = call
    ELSE 0

PipelineOrder ==
    <<"website.login_and_download", "storage.upload_to_s3", "storage.get_file_url",
      "email_sender.send_email">>

C20_DownloadArchiveLinksEmail ==
    op = "main" =>
        /\ Position("email_sender.send_email") > 0 =>
              /\ \A i \in 1..(Len(PipelineOrder) - 1) :
                    /\ Position(PipelineOrder[i]) > 0
                    /\ Position(PipelineOrder[i]) < Position(PipelineOrder[i + 1])
              /\ Position("storage.delete_old_files") > 0
        /\ (\A i \in DOMAIN steps : steps[i].ok) =>
              /\ Position("email_sender.send_email") > 0
              /\ ret = Bool(TRUE)

\* C21: with dry_run = true upload_to_s3 never calls upload_file and send_email
\* never calls SMTP or SendGrid, and each returns True exactly when its
\* preconditions hold: the store client is available; sender, recipients and
\* template are present
DryRunUpload == op = "upload_to_s3" /\ args.dry_run
DryRunEmail == op = "send_email" /\ args.dry_run

SenderPresent == EMAIL_FROM # ""

\* the setting names a recipient: a non-blank piece of a string, a non-empty
\* string entry of a list
RecipientsPresent ==
    \/ /\ EMAIL_TO.type = "str"
       /\ \E i \in DOMAIN EMAIL_TO.items : EMAIL_TO.items[i] \notin {"", " "}
    \/ /\ EMAIL_TO.type = "list"
       /\ \E i \in DOMAIN EMAIL_TO.items : EMAIL_TO.items[i] \notin {"", "None"}

TemplatePresent == template \notin {"no_dir", "no_file"}

DryRunUploadCorrect ==
    DryRunUpload => (calls = << >> /\ ret = Bool(s3_client = "client"))

C21_DryRunTrueIffPreconditions ==
    /\ DryRunUploadCorrect
    /\ DryRunEmail =>
          /\ calls = << >>
          /\ ret = Bool(SenderPresent /\ RecipientsPresent /\ TemplatePresent)

\* C21 as amended: ... and send_email returns True exactly when sender and
\* recipients are present, the template is present and the template renders
C21_DryRunTrueIffRenders ==
    /\ DryRunUploadCorrect
    /\ DryRunEmail =>
          /\ calls = << >>
          /\ raised = "none"
          /\ ret = Bool(SenderPresent /\ RecipientsPresent /\ TemplatePresent
                        /\ template = "ok")

C21_Witness ==
    /\ DryRunEmail
    /\ Method = "smtp"
    /\ ret = Bool(TRUE)
    /\ calls = << >>

\* C22: send_email returns False and never raises whenever the email could not
\* be sent, whether it delivers through SendGrid or through SMTP
C22_SendEmailNeverRaises ==
    op = "send_email" =>
        /\ raised = "none"
        /\ ret \in {Bool(TRUE), Bool(FALSE)}
        /\ (ret = Bool(TRUE) /\ ~args.dry_run) => calls # << >>

\* C23: main returns True when the configuration is valid and the download, the
\* issue of today's URL and the email all succeed, which is every run in which
\* no call fails, and in no other case
Succeeded(call) == \E i \in DOMAIN steps : steps[i] = Step(call, TRUE)

PipelineSucceeded ==
    /\ Succeeded("website.login_and_download")
    /\ Succeeded("storage.get_file_url")
    /\ Succeeded("email_sender.send_email")

C23_TrueIffPipelineSucceeds ==
    op = "main" =>
        /\ ret = Bool(TRUE) => PipelineSucceeded
        /\ (SenderPresent /\ \A i \in DOMAIN steps : steps[i].ok) =>
              (ret = Bool(TRUE) /\ PipelineSucceeded)

\* C24: the purge is idempotent: after a real run of cleanup_old_files that
\* listed the store and in which every delete succeeded, a second run with the
\* same reference date and days attempts no deletion, and no run changes the
\* set of keys that are dated on or after the cutoff or do not parse
KeptKeys(objs) ==
    {k \in Range(KeysOf(objs)) : ~Dated(k) \/ DateOf(k) >= Today - RETENTION_DAYS}

CleanPurge ==
    /\ op = "cleanup_old_files"
    /\ ~args.dry_run
    /\ s3_client = "client"
    /\ ~all_files.none
    /\ errors = {}

C24_PurgeIdempotent ==
    [][op' = "cleanup_old_files" =>
          /\ KeptKeys(bucket') = KeptKeys(bucket)
          /\ CleanPurge =>
                /\ selected' = << >>
                /\ \A i \in DOMAIN calls' : calls'[i].api # "delete_object"]_vars

\* C25: when the store client cannot be obtained (bucket name unset or
\* construction fails) s3_client stays None and the operation returns its
\* failure value (False, None, [] or 0) without a store call; the next operation
\* attempts the initialisation again; once set, s3_client is never reset or
\* replaced
FailureValues == {Bool(FALSE), None, List(<< >>), Count(0)}

\* the next operation, whichever it is, can come out with a client
RetryPossible ==
    /\ ENABLED (list_storage_files_call /\ s3_client' = "client")
    /\ ENABLED (list_archive_files_call /\ s3_client' = "client")
    /\ ENABLED (upload_to_s3_call /\ s3_client' = "client")
    /\ ENABLED (generate_presigned_url_call /\ s3_client' = "client")
    /\ ENABLED (delete_old_files /\ s3_client' = "client")
    /\ ENABLED (cleanup_old_files /\ s3_client' = "client")
    /\ ENABLED (get_past_papers_from_storage /\ s3_client' = "client")

C25_NoClientFailsWithoutStoreCall ==
    [][/\ s3_client # "None" => s3_client' = s3_client
       /\ S3_BUCKET_NAME = "" => s3_client' = "None"
       /\ (op' # "none" /\ s3_client' = "None") =>
             /\ calls' = << >>
             /\ ret' \in FailureValues
             /\ bucket' = bucket
       /\ (op' = "none" /\ s3_client' = "None" /\ S3_BUCKET_NAME # "") =>
             RetryPossible']_vars

\* C26: when no request fails list_storage_files issues exactly one list
\* request per page of the listing, in page order, stops at the first page
\* whose IsTruncated is false (the last one) and requests no page twice
PageRequests == [i \in 1..Len(pages) |-> Call("list_objects_v2", i, << >>)]

C26_OneRequestPerPage ==
    (/\ op = "list_storage_files"
     /\ pages # << >>
     /\ failed_page = 0)
    => calls = PageRequests

====
